---- MODULE Spec2Model ----
(***************************************************************************)
(* A model of rat_trap_parts.cpp: the word game "Rat Trap Parts".          *)
(*                                                                         *)
(* Strings are sequences of character codes (ASCII), so that sorting,      *)
(* lower-casing and the alphabetic test are computed, not assumed.         *)
(* The spell checker (hunspell) and the lexical database (WordNet) are     *)
(* external libraries: they are modelled by a small fixed lexicon, given   *)
(* call by call (spell, morphword, in_wn, stem).                           *)
(***************************************************************************)
EXTENDS Integers, Sequences, FiniteSets, TLC

VARIABLES
    pc,               \* position of the program: setup loop, play loop, ...
    input_arr,        \* the line last read by mvgetnstr
    current,          \* std::set<word const> current   (set of literals)
    prior,            \* std::set<word const> prior
    used_stems,       \* std::set<std::string const> used_stems
    score,            \* unsigned long score
    prior_index,      \* unsigned int prior_index
    current_index,    \* unsigned int current_index
    prior_strings,    \* pages produced by paginate(prior, ...)
    current_strings,  \* pages produced by paginate(current, ...)
    err,              \* the message row written by print_err / print_blank
    h_word,           \* validator harness: the literal of the source word
    h_other,          \* validator harness: the candidate list
    h_ret,            \* harness: "unset", or the value returned
    h_stems           \* stems harness: the set returned by stems_from_str

game == <<current, prior, used_stems, score>>
screen == <<prior_index, current_index, prior_strings, current_strings, err>>
harness == <<h_word, h_other, h_ret, h_stems>>
vars == <<pc, input_arr, current, prior, used_stems, score, prior_index,
          current_index, prior_strings, current_strings, err,
          h_word, h_other, h_ret, h_stems>>

----------------------------------------------------------------------------
(* Bounds of the model *)

\* letters 'a' .. of the validator harness
AlphaSize == 2
\* longest source word of the validator harness; the candidates together
\* are at most one letter longer than that plus one
MaxLen == 3
\* most candidate tokens on one line of the play loop
MaxCands == 2
\* most steps an index is followed below 0
MaxBack == 1

----------------------------------------------------------------------------
(* Machine integers.  TLC's integers are 32 bits wide, so the widths are   *)
(* scaled down; wrap-around is kept.                                       *)

\* size_t and unsigned long (score is printed with %lu)
SIZE_MODULUS == 2^20
\* int and unsigned int
INT_MODULUS == 2^16

\* a - b on two size_t values
size_sub(a, b) == (a - b) % SIZE_MODULUS
\* a + b on two size_t / unsigned long values
size_add(a, b) == (a + b) % SIZE_MODULUS
\* conversion of an integer value to int
to_int(x) ==
    LET r == x % INT_MODULUS
    IN  IF r >= INT_MODULUS \div 2 THEN r - INT_MODULUS ELSE r
\* conversion of an integer value to unsigned int
to_uint(x) == x % INT_MODULUS
\* conversion of an integer value to unsigned long / size_t
to_size(x) == x % SIZE_MODULUS

Min(a, b) == IF a < b THEN a ELSE b
Max(a, b) == IF a > b THEN a ELSE b

----------------------------------------------------------------------------
(* Characters and strings *)

SPACE == <<32>>

isalpha(c) == (c >= 65 /\ c <= 90) \/ (c >= 97 /\ c <= 122)
tolower(c) == IF c >= 65 /\ c <= 90 THEN c + 32 ELSE c

to_lower(str) == [k \in 1..Len(str) |-> tolower(str[k])]

\* lowercase_and_validate: the lower-cased string and the returned flag
lowercase_and_validate(str) ==
    [str |-> to_lower(str),
     ok  |-> \A k \in 1..Len(to_lower(str)) : isalpha(to_lower(str)[k])]

\* std::string operator< (lexicographic on character codes)
RECURSIVE str_less(_, _)
str_less(x, y) ==
    IF y = <<>> THEN FALSE
    ELSE IF x = <<>> THEN TRUE
    ELSE IF Head(x) # Head(y) THEN Head(x) < Head(y)
    ELSE str_less(Tail(x), Tail(y))

\* iteration order of a std::set of strings
RECURSIVE set_order(_)
set_order(S) ==
    IF S = {} THEN <<>>
    ELSE LET m == CHOOSE x \in S : \A y \in S \ {x} : str_less(x, y)
         IN  <<m>> \o set_order(S \ {m})

\* std::sort on the characters of a string
RECURSIVE insert_sorted(_, _)
insert_sorted(c, s) ==
    IF s = <<>> THEN <<c>>
    ELSE IF c <= Head(s) THEN <<c>> \o s
    ELSE <<Head(s)>> \o insert_sorted(c, Tail(s))

RECURSIVE sort(_)
sort(s) == IF s = <<>> THEN <<>> ELSE insert_sorted(Head(s), sort(Tail(s)))

\* boost join(other, "")
RECURSIVE join(_)
join(other) == IF other = <<>> THEN <<>> ELSE Head(other) \o join(Tail(other))

\* word::word : the literal and its sorted letters
word(w) == [literal |-> w, sorted |-> sort(w)]

----------------------------------------------------------------------------
(* word::is_one_less_than *)

\* one_less_walk that allows no skipped letter before the last position
RECURSIVE one_less_walk_no_skip(_, _, _, _)
one_less_walk_no_skip(sorted, o, i, j) ==
    IF ~(i < Len(sorted) /\ j < Len(o)) THEN TRUE
    ELSE IF sorted[i + 1] = o[j + 1] THEN one_less_walk_no_skip(sorted, o, i + 1, j + 1)
    ELSE FALSE

\* the while loop over the two sorted strings; i and j count from 0
RECURSIVE one_less_walk(_, _, _, _)
one_less_walk(sorted, o, i, j) ==
    IF ~(i < Len(sorted) /\ j < Len(o)) THEN TRUE
    ELSE IF sorted[i + 1] = o[j + 1] THEN one_less_walk(sorted, o, i + 1, j + 1)
    ELSE IF j - i > 1 THEN FALSE
    ELSE one_less_walk(sorted, o, i, j + 1)

\* is_one_less_than without "std::sort(o.begin(), o.end())"
is_one_less_than_unsorted(self, other) ==
    LET o == join(other)
    IN  IF size_sub(Len(o), Len(self.sorted)) # 1 THEN FALSE
        ELSE one_less_walk(self.sorted, o, 0, 0)

\* is_one_less_than that takes any combined length above the source's
is_one_less_than_longer(self, other) ==
    LET o == join(other)
    IN  IF Len(o) <= Len(self.sorted) THEN FALSE
        ELSE one_less_walk(self.sorted, sort(o), 0, 0)

\* is_one_less_than without the test of the lengths
is_one_less_than_no_length(self, other) ==
    one_less_walk(self.sorted, sort(join(other)), 0, 0)

is_one_less_than(self, other) ==
    LET o == join(other)
    IN  IF size_sub(Len(o), Len(self.sorted)) # 1 THEN FALSE
        ELSE one_less_walk(self.sorted, sort(o), 0, 0)

----------------------------------------------------------------------------
(* The words a player types in this model *)

\* "all"
w_all == <<97, 108, 108>>
\* "ally"
w_ally == <<97, 108, 108, 121>>
\* "alley"
w_alley == <<97, 108, 108, 101, 121>>
\* "lay"
w_lay == <<108, 97, 121>>
\* "lie"
w_lie == <<108, 105, 101>>
\* "ale"
w_ale == <<97, 108, 101>>
\* "la"
w_la == <<108, 97>>
\* "ode"
w_ode == <<111, 100, 101>>
\* "does"
w_does == <<100, 111, 101, 115>>
\* "cat" and the candidates of the examples: "ct", "as", "cats", "act"
w_cat == <<99, 97, 116>>
w_ct == <<99, 116>>
w_as == <<97, 115>>
w_cats == <<99, 97, 116, 115>>
w_act == <<97, 99, 116>>
\* "doe" and "do" (base forms only)
w_doe == <<100, 111, 101>>
w_do == <<100, 111>>
\* "laly" (not a word)
w_laly == <<108, 97, 108, 121>>
\* "lya" (not a word)
w_lya == <<108, 121, 97>>
\* "l8y" (not alphabetic)
w_l8y == <<108, 56, 121>>
\* "ALLY" and "LAY" (upper case)
w_ALLY == <<65, 76, 76, 89>>
w_LAY == <<76, 65, 89>>
\* the commands
s_comma == <<44>>
s_dot == <<46>>
s_lt == <<60>>
s_gt == <<62>>
s_q == <<113>>
s_Q == <<81>>
s_qmark == <<63>>
s_h == <<104>>
s_help == <<104, 101, 108, 112>>
s_r == <<114>>
s_random == <<114, 97, 110, 100, 111, 109>>

----------------------------------------------------------------------------
(* The lexical libraries: hunspell (spell, stem) and WordNet (morphword,   *)
(* in_wn), as a fixed lexicon.                                             *)

NOUN == 1
VERB == 2
ADJ == 3
ADV == 4

\* morphword's "no base form"
NULL == <<>>

\* Hunspell::spell
spell(str) ==
    str \in {w_all, w_ally, w_alley, w_lay, w_lie, w_ale, w_la, w_ode, w_does}

\* WordNet morphword(word, pos): the base form, or NULL
morphword(str, pos) ==
    CASE str = w_lay /\ pos = VERB -> w_lie
      [] str = w_does /\ pos = NOUN -> w_doe
      [] str = w_does /\ pos = VERB -> w_do
      [] OTHER -> NULL

\* WordNet in_wn(word, pos): is the word a base form of that category
in_wn(str, pos) ==
    \/ str = w_all /\ pos \in {ADJ, ADV}
    \/ str = w_ally /\ pos \in {NOUN, VERB}
    \/ str = w_alley /\ pos = NOUN
    \/ str = w_lay /\ pos \in {NOUN, VERB, ADJ}
    \/ str = w_lie /\ pos \in {NOUN, VERB}
    \/ str = w_ale /\ pos = NOUN
    \/ str = w_la /\ pos = NOUN
    \/ str = w_ode /\ pos = NOUN

\* Hunspell::stem: the list of stems it returns, in order
hunspell_stem(str) ==
    CASE str = w_ally -> <<w_ally, w_all>>
      [] str \in {w_all, w_alley, w_lay, w_lie, w_ale, w_la, w_ode} -> <<str>>
      [] OTHER -> <<>>

----------------------------------------------------------------------------
(* rat_trap_parts::stems_from_str *)

\* sizeof(literal_arr)
LITERAL_ARR_SIZE == 128

\* the "Input length exceeded." exception
stems_throws(str) == Len(str) >= LITERAL_ARR_SIZE

\* the loop over the categories: the base forms added
RECURSIVE morph_loop(_, _)
morph_loop(literal, i) ==
    IF i > ADV THEN {}
    ELSE IF morphword(literal, i) = NULL THEN morph_loop(literal, i + 1)
    ELSE {morphword(literal, i)} \cup morph_loop(literal, i + 1)

\* the loop over the categories: the flag should_hunspell
RECURSIVE should_hunspell(_, _)
should_hunspell(literal, i) ==
    IF i > ADV THEN FALSE
    ELSE IF morphword(literal, i) = NULL /\ in_wn(literal, i) THEN TRUE
    ELSE should_hunspell(literal, i + 1)

\* the loop over stems_arr; i counts from 0 and is incremented in the
\* loop header and once more in the body
RECURSIVE stem_loop(_, _)
stem_loop(stems_arr, i) ==
    IF ~(i < Len(stems_arr)) THEN {}
    ELSE {stems_arr[i + 1]} \cup stem_loop(stems_arr, i + 2)

\* the body of stems_from_str, stems_arr being what spell.stem returns
stems_given(str, stems_arr) ==
    LET v == lowercase_and_validate(str)
    IN  IF ~v.ok \/ ~spell(str) THEN {}
        ELSE morph_loop(v.str, NOUN)
             \cup (IF should_hunspell(v.str, NOUN)
                   THEN stem_loop(stems_arr, 0)
                   ELSE {})

stems_from_str(str) == stems_given(str, hunspell_stem(to_lower(str)))

----------------------------------------------------------------------------
(* paginate *)

\* The header that sets MAX_COLS and the rows of the two word areas is not
\* among the sources; the model takes a narrow screen so that rows fill up.
MAX_COLS == 8
\* PRIOR_END - PRIOR_START + 1
PRIOR_ROWS == 1
\* CURRENT_END - CURRENT_START + 1
CURRENT_ROWS == 1

empty_page(size) == [r \in 1..size |-> <<>>]

\* "if (row_index == size) {...}; to.back()[row_index++] = row;"
store_row(st, size) ==
    LET to1 == IF st.row_index = size THEN Append(st.to, empty_page(size)) ELSE st.to
        ri1 == IF st.row_index = size THEN 0 ELSE st.row_index
    IN  [to |-> [to1 EXCEPT ![Len(to1)][ri1 + 1] = st.row],
         row |-> st.row,
         row_index |-> ri1 + 1]

\* the loop over the words of the pool, in the order of the set
RECURSIVE paginate_loop(_, _, _, _)
paginate_loop(from, k, st, size) ==
    IF k > Len(from) THEN st
    ELSE IF Len(st.row) + Len(from[k]) < MAX_COLS
         THEN paginate_loop(from, k + 1,
                            [st EXCEPT !.row = st.row \o from[k] \o SPACE], size)
         ELSE paginate_loop(from, k + 1,
                            [store_row(st, size) EXCEPT !.row = <<>>], size)

paginate(from, size) ==
    LET st == paginate_loop(set_order(from), 1,
                            [to |-> <<empty_page(size)>>, row |-> <<>>, row_index |-> 0],
                            size)
    IN  IF Len(st.row) > 0 THEN store_row(st, size).to ELSE st.to

----------------------------------------------------------------------------
(* The lines a player types *)

\* the 3-letter words of valid_words.txt
VALID_WORDS == <<w_all, w_lay>>

SetupLines ==
    {w_all, w_lay, w_LAY, w_ode, w_ally, w_la, w_lya, w_l8y,
     s_r, s_random, s_h, s_help}

ChosenTokens == {w_all, w_lay, w_ode, w_ally, w_alley}
CandTokens == {w_ally, w_alley, w_lay, w_lie, w_ale, w_does, w_la, w_laly, w_l8y, w_ALLY}

CandLists == UNION {[1..n -> CandTokens] : n \in 0..MaxCands}

RECURSIVE line_of(_)
line_of(tokens) ==
    IF Len(tokens) = 1 THEN tokens[1]
    ELSE tokens[1] \o SPACE \o line_of(Tail(tokens))

CommandLines == {s_comma, s_dot, s_lt, s_gt, s_q, s_Q, s_qmark, s_h}

PlayLines ==
    CommandLines
    \cup {<<>>}
    \cup {line_of(<<c>> \o l) : c \in ChosenTokens, l \in CandLists}

----------------------------------------------------------------------------
(* rat_trap_parts::rat_trap_parts and rat_trap_parts::setup *)

\* the validator harness is not used during a game
HarnessIdle ==
    /\ h_word = <<>>
    /\ h_other = <<>>
    /\ h_ret = "unset"
    /\ h_stems = {}

Init ==
    /\ pc = "setup"
    /\ input_arr = <<>>
    /\ current = {}
    /\ prior = {}
    /\ used_stems = {}
    /\ score = 0
    /\ prior_index = 0
    /\ current_index = 0
    /\ prior_strings = <<>>
    /\ current_strings = <<>>
    /\ err = ""
    /\ HarnessIdle

\* setup() has returned: play() paginates both pools and prints its hint
enter_play(cur) ==
    /\ prior_strings' = paginate(prior, PRIOR_ROWS)
    /\ current_strings' = paginate(cur, CURRENT_ROWS)
    /\ err' = "If confused, press h<Enter>"
    /\ pc' = "loop"
    /\ input_arr' = <<>>

\* mvgetnstr in the setup loop
SetupRead ==
    /\ pc = "setup"
    /\ \E line \in SetupLines : input_arr' = line
    /\ pc' = "setup_dispatch"
    /\ UNCHANGED <<game, screen, harness>>

\* setup_is_word with "str.size() <= 3"
setup_is_word_short(str) ==
    LET v == lowercase_and_validate(str)
    IN  v.ok /\ Len(v.str) <= 3 /\ spell(v.str)

\* the typed string is a 3-letter word
setup_is_word(str) ==
    LET v == lowercase_and_validate(str)
    IN  v.ok /\ Len(v.str) = 3 /\ spell(v.str)

\* the typed string asks for a random start
setup_is_random(str) ==
    LET v == lowercase_and_validate(str)
    IN  v.ok /\ ~setup_is_word(str) /\ v.str \in {s_r, s_random}

\* the typed string asks for help
setup_is_help(str) ==
    LET v == lowercase_and_validate(str)
    IN  v.ok /\ ~setup_is_word(str) /\ ~setup_is_random(str) /\ v.str \in {s_h, s_help}

\* seed that leaves used_stems as it is
seed_no_stems(str) ==
    /\ current' = current \cup {str}
    /\ used_stems' = used_stems
    /\ enter_play(current \cup {str})
    /\ UNCHANGED <<prior, score, prior_index, current_index, harness>>

\* current.insert(str); used_stems.insert(stems of str)
seed(str) ==
    /\ current' = current \cup {str}
    /\ used_stems' = used_stems \cup stems_from_str(str)
    /\ enter_play(current \cup {str})
    /\ UNCHANGED <<prior, score, prior_index, current_index, harness>>

SetupWord ==
    /\ pc = "setup_dispatch"
    /\ setup_is_word(input_arr)
    /\ seed(lowercase_and_validate(input_arr).str)

\* choices[std::random_device()() % choices.size()]
SetupRandom ==
    /\ pc = "setup_dispatch"
    /\ setup_is_random(input_arr)
    /\ \E k \in 1..Len(VALID_WORDS) : seed(VALID_WORDS[k])

\* ferror(f) is called after fclose(f): the stream is gone, the call may
\* report an error, and then setup throws and the program ends
SetupRandomThrows ==
    /\ pc = "setup_dispatch"
    /\ setup_is_random(input_arr)
    /\ pc' = "crashed"
    /\ input_arr' = <<>>
    /\ UNCHANGED <<game, screen, harness>>

SetupHelp ==
    /\ pc = "setup_dispatch"
    /\ setup_is_help(input_arr)
    /\ pc' = "setup"
    /\ input_arr' = <<>>
    /\ UNCHANGED <<game, screen, harness>>

\* anything else: the loop asks again
SetupAgain ==
    /\ pc = "setup_dispatch"
    /\ ~setup_is_word(input_arr)
    /\ ~setup_is_random(input_arr)
    /\ ~setup_is_help(input_arr)
    /\ pc' = "setup"
    /\ input_arr' = <<>>
    /\ UNCHANGED <<game, screen, harness>>

----------------------------------------------------------------------------
(* rat_trap_parts::play : one turn *)

\* index of the first space of s at or after k, or 0
RECURSIVE find_space(_, _)
find_space(s, k) ==
    IF k > Len(s) THEN 0
    ELSE IF s[k] = 32 THEN k
    ELSE find_space(s, k + 1)

\* the tokens that successive calls of strsep(&start, " ") return
RECURSIVE strsep_tokens(_)
strsep_tokens(s) ==
    LET k == find_space(s, 1)
    IN  IF k = 0 THEN <<s>>
        ELSE <<SubSeq(s, 1, k - 1)>> \o strsep_tokens(SubSeq(s, k + 1, Len(s)))

\* candidates_loop with the length test off by one ("str.size() < 2")
RECURSIVE candidates_loop_short(_, _, _)
candidates_loop_short(tokens, k, candidates) ==
    IF k > Len(tokens) THEN [candidates |-> candidates, entry_invalid |-> FALSE]
    ELSE LET v == lowercase_and_validate(tokens[k])
         IN  IF ~v.ok \/ Len(v.str) < 2
             THEN [candidates |-> candidates, entry_invalid |-> TRUE]
             ELSE candidates_loop_short(tokens, k + 1, Append(candidates, v.str))

\* "while(start != nullptr)": the candidates are lower-cased and must be
\* alphabetic and at least 3 characters long; the loop stops at the first
\* one that is not
RECURSIVE candidates_loop(_, _, _)
candidates_loop(tokens, k, candidates) ==
    IF k > Len(tokens) THEN [candidates |-> candidates, entry_invalid |-> FALSE]
    ELSE LET v == lowercase_and_validate(tokens[k])
         IN  IF ~v.ok \/ Len(v.str) < 3
             THEN [candidates |-> candidates, entry_invalid |-> TRUE]
             ELSE candidates_loop(tokens, k + 1, Append(candidates, v.str))

\* stems_loop without the test against used_stems
RECURSIVE stems_loop_no_ledger(_, _, _, _, _, _)
stems_loop_no_ledger(stems, n, candidate, used, st, was_scored) ==
    IF n > Len(stems) THEN st
    ELSE IF stems[n] \notin st.stems_this_round
         THEN stems_loop_no_ledger(stems, n + 1, candidate, used,
                  [st EXCEPT
                     !.stems_this_round = @ \cup {stems[n]},
                     !.score_this_round =
                         IF was_scored THEN @
                         ELSE to_int(size_add(to_size(@), size_sub(Len(candidate), 3)))],
                  TRUE)
         ELSE [st EXCEPT !.entry_invalid = TRUE,
                         !.err = "'%s' already used previously"]

\* stems_loop without the test against stems_this_round
RECURSIVE stems_loop_no_round(_, _, _, _, _, _)
stems_loop_no_round(stems, n, candidate, used, st, was_scored) ==
    IF n > Len(stems) THEN st
    ELSE IF stems[n] \notin used
         THEN stems_loop_no_round(stems, n + 1, candidate, used,
                  [st EXCEPT
                     !.stems_this_round = @ \cup {stems[n]},
                     !.score_this_round =
                         IF was_scored THEN @
                         ELSE to_int(size_add(to_size(@), size_sub(Len(candidate), 3)))],
                  TRUE)
         ELSE [st EXCEPT !.entry_invalid = TRUE,
                         !.err = "'%s' already used previously"]

\* stems_loop without the flag was_scored: every stem scores
RECURSIVE stems_loop_score_each(_, _, _, _, _, _)
stems_loop_score_each(stems, n, candidate, used, st, was_scored) ==
    IF n > Len(stems) THEN st
    ELSE IF stems[n] \notin used /\ stems[n] \notin st.stems_this_round
         THEN stems_loop_score_each(stems, n + 1, candidate, used,
                  [st EXCEPT
                     !.stems_this_round = @ \cup {stems[n]},
                     !.score_this_round =
                         to_int(size_add(to_size(@), size_sub(Len(candidate), 3)))],
                  TRUE)
         ELSE [st EXCEPT !.entry_invalid = TRUE,
                         !.err = "'%s' already used previously"]

\* "for (auto const& stem : stems)": st is the state of the round,
\* was_scored the flag of the candidate
RECURSIVE stems_loop(_, _, _, _, _, _)
stems_loop(stems, n, candidate, used, st, was_scored) ==
    IF n > Len(stems) THEN st
    ELSE IF stems[n] \notin used /\ stems[n] \notin st.stems_this_round
         THEN stems_loop(stems, n + 1, candidate, used,
                  [st EXCEPT
                     !.stems_this_round = @ \cup {stems[n]},
                     !.score_this_round =
                         IF was_scored THEN @
                         ELSE to_int(size_add(to_size(@), size_sub(Len(candidate), 3)))],
                  TRUE)
         ELSE [st EXCEPT !.entry_invalid = TRUE,
                         !.err = "'%s' already used previously"]

\* round_loop with entry_invalid cleared at the start of every candidate
RECURSIVE round_loop_reset(_, _, _, _)
round_loop_reset(candidates, k, used, st) ==
    IF k > Len(candidates) THEN st
    ELSE IF stems_throws(candidates[k]) THEN [st EXCEPT !.threw = TRUE]
    ELSE LET stems == stems_from_str(candidates[k])
         IN  IF Cardinality(stems) = 0
             THEN [st EXCEPT !.entry_invalid = TRUE,
                             !.err = "'%s' isn't a valid word"]
             ELSE round_loop_reset(candidates, k + 1, used,
                      stems_loop(set_order(stems), 1, candidates[k], used,
                                 [st EXCEPT !.entry_invalid = FALSE], FALSE))

\* "for (auto const& candidate : candidates)"
RECURSIVE round_loop(_, _, _, _)
round_loop(candidates, k, used, st) ==
    IF k > Len(candidates) THEN st
    ELSE IF stems_throws(candidates[k]) THEN [st EXCEPT !.threw = TRUE]
    ELSE LET stems == stems_from_str(candidates[k])
         IN  IF Cardinality(stems) = 0
             THEN [st EXCEPT !.entry_invalid = TRUE,
                             !.err = "'%s' isn't a valid word"]
             ELSE round_loop(candidates, k + 1, used,
                      stems_loop(set_order(stems), 1, candidates[k], used, st, FALSE))

reject(chosen, candidates, msg) ==
    [verdict |-> "reject", err |-> msg, chosen |-> chosen, candidates |-> candidates,
     score_this_round |-> 0, stems_this_round |-> {}]

\* play_turn without the call of is_one_less_than
play_turn_no_anagram(line, cur, used) ==
    LET tokens == strsep_tokens(line)
        chosen == tokens[1]
    IN  IF chosen \notin cur
        THEN reject(chosen, <<>>, "'%s' is not a current word.")
        ELSE IF Len(tokens) = 1
        THEN reject(chosen, <<>>, "Need at least one word...")
        ELSE LET c == candidates_loop(tokens, 2, <<>>)
             IN  IF c.entry_invalid
                 THEN reject(chosen, c.candidates, "'%s' is not alpha/too short")
                 ELSE LET st == round_loop(c.candidates, 1, used,
                                    [entry_invalid |-> FALSE, score_this_round |-> 0,
                                     stems_this_round |-> {}, err |-> "", threw |-> FALSE])
                      IN  [verdict |-> IF st.threw THEN "throw"
                                       ELSE IF st.entry_invalid THEN "reject"
                                       ELSE "commit",
                           err |-> st.err, chosen |-> chosen, candidates |-> c.candidates,
                           score_this_round |-> st.score_this_round,
                           stems_this_round |-> st.stems_this_round]

\* the body of the play loop from "char* start = input_arr" on, for the
\* line read, the pool cur and the ledger used
play_turn(line, cur, used) ==
    LET tokens == strsep_tokens(line)
        chosen == tokens[1]
    IN  IF chosen \notin cur
        THEN reject(chosen, <<>>, "'%s' is not a current word.")
        ELSE IF Len(tokens) = 1
        THEN reject(chosen, <<>>, "Need at least one word...")
        ELSE LET c == candidates_loop(tokens, 2, <<>>)
             IN  IF c.entry_invalid
                 THEN reject(chosen, c.candidates, "'%s' is not alpha/too short")
                 ELSE IF ~is_one_less_than(word(chosen), c.candidates)
                 THEN reject(chosen, c.candidates, "Not a valid anagram + extra letter")
                 ELSE LET st == round_loop(c.candidates, 1, used,
                                    [entry_invalid |-> FALSE, score_this_round |-> 0,
                                     stems_this_round |-> {}, err |-> "", threw |-> FALSE])
                      IN  [verdict |-> IF st.threw THEN "throw"
                                       ELSE IF st.entry_invalid THEN "reject"
                                       ELSE "commit",
                           err |-> st.err, chosen |-> chosen, candidates |-> c.candidates,
                           score_this_round |-> st.score_this_round,
                           stems_this_round |-> st.stems_this_round]

----------------------------------------------------------------------------
(* rat_trap_parts::play : the loop *)

\* the indices the screen is drawn with are inside the page lists
indices_valid ==
    /\ Len(prior_strings) > 0 => prior_index < Len(prior_strings)
    /\ current_index < Len(current_strings)

\* The page-back commands count an index down from 0 through the whole
\* unsigned range: the model follows at most MaxBack steps below 0.
back_allowed(line) ==
    /\ to_lower(line) = s_comma =>
           (prior_index = 0 \/ prior_index > INT_MODULUS - MaxBack
              \/ prior_index <= Len(prior_strings))
    /\ to_lower(line) = s_lt =>
           (current_index = 0 \/ current_index > INT_MODULUS - MaxBack
              \/ current_index <= Len(current_strings))

\* the screen is drawn, a line is read, the message row is blanked
ReadLine ==
    /\ pc = "loop"
    /\ \E line \in PlayLines : back_allowed(line) /\ input_arr' = line
    /\ err' = ""
    /\ pc' = "dispatch"
    /\ UNCHANGED <<game, prior_index, current_index, prior_strings,
                   current_strings, harness>>

\* drawing reads prior_strings[prior_index] and
\* current_strings[current_index]: outside the vector the read is
\* undefined, and one outcome is that the program ends there
DrawFault ==
    /\ pc = "loop"
    /\ ~indices_valid
    /\ pc' = "crashed"
    /\ UNCHANGED <<input_arr, game, screen, harness>>

\* the lower-cased copy of the line
input == to_lower(input_arr)

is_command == input \in {s_comma, s_dot, s_lt, s_gt, s_q, s_qmark, s_h}

back_to_loop ==
    /\ pc' = "loop"
    /\ input_arr' = <<>>

\* ","
PriorBack ==
    /\ pc = "dispatch"
    /\ input = s_comma
    /\ prior_index' = to_uint(Max(0, to_uint(prior_index - 1)))
    /\ back_to_loop
    /\ UNCHANGED <<game, current_index, prior_strings, current_strings, err, harness>>

\* "."
PriorForward ==
    /\ pc = "dispatch"
    /\ input = s_dot
    /\ prior_index' = to_uint(Min(Len(prior_strings), to_size(to_uint(prior_index + 1))))
    /\ back_to_loop
    /\ UNCHANGED <<game, current_index, prior_strings, current_strings, err, harness>>

\* "<"
CurrentBack ==
    /\ pc = "dispatch"
    /\ input = s_lt
    /\ current_index' = to_uint(Max(0, to_uint(current_index - 1)))
    /\ back_to_loop
    /\ UNCHANGED <<game, prior_index, prior_strings, current_strings, err, harness>>

\* ">"
CurrentForward ==
    /\ pc = "dispatch"
    /\ input = s_gt
    /\ current_index' = to_uint(Min(Len(current_strings),
                                    to_size(to_uint(current_index + 1))))
    /\ back_to_loop
    /\ UNCHANGED <<game, prior_index, prior_strings, current_strings, err, harness>>

\* quit_bonus that passes over the words whose stems are all used
RECURSIVE quit_bonus_unused(_, _)
quit_bonus_unused(words, sc) ==
    IF words = <<>> THEN sc
    ELSE IF stems_from_str(Head(words)) \subseteq used_stems
         THEN quit_bonus_unused(Tail(words), sc)
         ELSE quit_bonus_unused(Tail(words),
                                size_add(sc, size_sub(Len(Head(words)), 3)))

\* "for (auto const& c : current) score += c.literal.size() - 3;"
RECURSIVE quit_bonus(_, _)
quit_bonus(words, sc) ==
    IF words = <<>> THEN sc
    ELSE quit_bonus(Tail(words), size_add(sc, size_sub(Len(Head(words)), 3)))

\* "q"
Quit ==
    /\ pc = "dispatch"
    /\ input = s_q
    /\ score' = quit_bonus(set_order(current), score)
    /\ err' = "Press any key to continue..."
    /\ pc' = "done"
    /\ input_arr' = <<>>
    /\ UNCHANGED <<current, prior, used_stems, prior_index, current_index,
                   prior_strings, current_strings, harness>>

\* "?" or "h"
Help ==
    /\ pc = "dispatch"
    /\ input \in {s_qmark, s_h}
    /\ err' = ""
    /\ back_to_loop
    /\ UNCHANGED <<game, prior_index, current_index, prior_strings,
                   current_strings, harness>>

\* a turn that ends in one of the "continue" statements
TurnRejected ==
    /\ pc = "dispatch"
    /\ ~is_command
    /\ LET t == play_turn(input_arr, current, used_stems)
       IN  /\ t.verdict = "reject"
           /\ err' = t.err
    /\ back_to_loop
    /\ UNCHANGED <<game, prior_index, current_index, prior_strings,
                   current_strings, harness>>

\* "score += score_this_round"
commit_score(sc, t) == size_add(sc, to_size(t.score_this_round))

\* commit_used_stems that assigns instead of inserting
commit_used_stems_assign(used, t) == t.stems_this_round

\* "used_stems.insert(stems_this_round.begin(), stems_this_round.end())"
commit_used_stems(used, t) == used \cup t.stems_this_round

\* commit_current without "current.erase(chosen)"
commit_current_keep(cur, t) ==
    cur \cup {t.candidates[k] : k \in 1..Len(t.candidates)}

\* commit_current that inserts the first candidate only
commit_current_first(cur, t) == (cur \ {t.chosen}) \cup {t.candidates[1]}

\* "current.erase(chosen); ...; current.insert(candidates.begin(), candidates.end())"
commit_current(cur, t) ==
    (cur \ {t.chosen}) \cup {t.candidates[k] : k \in 1..Len(t.candidates)}

\* "prior.insert(chosen)"
commit_prior(pri, t) == pri \cup {t.chosen}

\* a turn that reaches "score += score_this_round"
TurnCommitted ==
    /\ pc = "dispatch"
    /\ ~is_command
    /\ LET t == play_turn(input_arr, current, used_stems)
       IN  /\ t.verdict = "commit"
           /\ score' = commit_score(score, t)
           /\ used_stems' = commit_used_stems(used_stems, t)
           /\ current' = commit_current(current, t)
           /\ prior' = commit_prior(prior, t)
           /\ prior_strings' = paginate(commit_prior(prior, t), PRIOR_ROWS)
           /\ current_strings' = paginate(commit_current(current, t), CURRENT_ROWS)
    /\ back_to_loop
    /\ UNCHANGED <<prior_index, current_index, err, harness>>

\* A candidate as long as literal_arr makes stems_from_str throw; nothing
\* catches it and the program ends: no step follows a turn whose verdict is
\* "throw".  A candidate is only that long after more than a hundred
\* committed turns.

Next ==
    \/ SetupRead
    \/ SetupWord
    \/ SetupRandom
    \/ SetupRandomThrows
    \/ SetupHelp
    \/ SetupAgain
    \/ ReadLine
    \/ DrawFault
    \/ PriorBack
    \/ PriorForward
    \/ CurrentBack
    \/ CurrentForward
    \/ Quit
    \/ Help
    \/ TurnRejected
    \/ TurnCommitted

Spec == Init /\ [][Next]_vars

----------------------------------------------------------------------------
(* What a turn is, in the words of the rules *)

\* the line under evaluation is a turn, not a command
evaluating_turn == pc = "dispatch" /\ ~is_command

\* the source word and the candidates of a typed line
chosen_of(line) == strsep_tokens(line)[1]
candidates_of(line) ==
    LET tokens == strsep_tokens(line)
    IN  [k \in 1..(Len(tokens) - 1) |-> to_lower(tokens[k + 1])]

\* the stems of each candidate of a typed line
stems_of_candidates(line) ==
    LET cands == candidates_of(line)
    IN  [k \in 1..Len(cands) |-> stems_from_str(cands[k])]

alphabetic(str) == \A k \in 1..Len(str) : isalpha(str[k])

\* the reasons for which the rules reject a turn
not_current(line, cur) == chosen_of(line) \notin cur
no_candidates(line) == Len(candidates_of(line)) = 0
bad_candidate(line) ==
    LET cands == candidates_of(line)
    IN  \E k \in 1..Len(cands) : ~alphabetic(cands[k]) \/ Len(cands[k]) < 3
not_anagram(line) == ~is_one_less_than(word(chosen_of(line)), candidates_of(line))
no_stems(line) ==
    LET stems == stems_of_candidates(line)
    IN  \E k \in 1..Len(stems) : stems[k] = {}
stem_used(line, used) ==
    LET stems == stems_of_candidates(line)
    IN  \E k \in 1..Len(stems) : stems[k] \cap used # {}
stem_shared(line) ==
    LET stems == stems_of_candidates(line)
    IN  \E i, j \in 1..Len(stems) : i # j /\ stems[i] \cap stems[j] # {}

rejected_by_rules(line, cur, used) ==
    \/ not_current(line, cur)
    \/ no_candidates(line)
    \/ bad_candidate(line)
    \/ not_anagram(line)
    \/ no_stems(line)
    \/ stem_used(line, used)
    \/ stem_shared(line)

\* the turn under evaluation gets as far as the stems of its candidates
reaches_stems(line, cur) ==
    /\ ~not_current(line, cur)
    /\ ~no_candidates(line)
    /\ ~bad_candidate(line)
    /\ ~not_anagram(line)

\* sum of len(w) - 3 over a list of words, in the integers
RECURSIVE length_gain(_)
length_gain(words) ==
    IF words = <<>> THEN 0 ELSE (Len(Head(words)) - 3) + length_gain(Tail(words))

\* the stems of all the words of a list
stems_of_all(words) == UNION {stems_from_str(words[k]) : k \in 1..Len(words)}

\* C1: a turn that the rules reject for any reason leaves Score, UsedStems,
\* current and prior exactly as they were, wherever the offending candidate
\* stands in the list.
C1_RejectedTurnChangesNothing ==
    [][(evaluating_turn /\ rejected_by_rules(input_arr, current, used_stems))
           => UNCHANGED game]_vars

\* C1 witness: a turn is under evaluation whose first candidate has a used
\* stem and is followed by a candidate with unused stems only.
C1_Witness ==
    /\ evaluating_turn
    /\ reaches_stems(input_arr, current)
    /\ Len(candidates_of(input_arr)) >= 2
    /\ stems_from_str(candidates_of(input_arr)[1]) \cap used_stems # {}
    /\ stems_from_str(candidates_of(input_arr)[2]) # {}
    /\ stems_from_str(candidates_of(input_arr)[2]) \cap used_stems = {}
    /\ play_turn(input_arr, current, used_stems).verdict = "reject"

\* C3: no stem is credited twice: a turn one of whose candidates has a
\* stem that is already in UsedStems is rejected, so a committed turn has
\* no candidate with a stem that was in UsedStems before it.
C3_UsedStemRejectsTurn ==
    [][evaluating_turn =>
          /\ stem_used(input_arr, used_stems) => (UNCHANGED game /\ pc' = "loop")
          /\ game' # game => ~stem_used(input_arr, used_stems)]_vars

\* C3 witness: a turn reaches the stems of its candidates, and a candidate
\* that was never in a pool has a stem that another word put in UsedStems.
C3_Witness ==
    /\ evaluating_turn
    /\ reaches_stems(input_arr, current)
    /\ \E k \in 1..Len(candidates_of(input_arr)) :
          /\ candidates_of(input_arr)[k] \notin current \cup prior
          /\ stems_from_str(candidates_of(input_arr)[k]) \cap used_stems # {}
    /\ play_turn(input_arr, current, used_stems).verdict = "reject"

C5_CommittedTurnEffect ==
    [][(evaluating_turn /\ ~rejected_by_rules(input_arr, current, used_stems)) =>
          /\ current' = (current \ {chosen_of(input_arr)})
                          \cup {candidates_of(input_arr)[k] :
                                  k \in 1..Len(candidates_of(input_arr))}
          /\ prior' = prior \cup {chosen_of(input_arr)}
          /\ score' = score + length_gain(candidates_of(input_arr))
          /\ used_stems' = used_stems \cup stems_of_all(candidates_of(input_arr))]_vars

\* C5 witness: "ode does" has been committed from the seed "ode": the
\* candidate has two stems and is scored once.
C5_Witness ==
    /\ pc = "loop"
    /\ current = {w_does}
    /\ prior = {w_ode}
    /\ score = 1
    /\ used_stems = {w_ode, w_doe, w_do}

\* C6: a word leaves current only as the source of a committed turn and is
\* then in prior; prior never loses a word; no word of prior is in current.
C6_WordLifecycle ==
    [][/\ current \cap prior = {}
       /\ current' \cap prior' = {}
       /\ prior \subseteq prior'
       /\ \A w \in current \ current' :
             /\ evaluating_turn
             /\ chosen_of(input_arr) = w
             /\ ~rejected_by_rules(input_arr, current, used_stems)
             /\ w \in prior'
       /\ \A w \in prior : w \notin current']_vars

\* C6 witness: two words are in prior, and a turn that reaches the stems of
\* its candidates offers a word of prior as a candidate.
C6_Witness ==
    /\ evaluating_turn
    /\ Cardinality(prior) >= 2
    /\ reaches_stems(input_arr, current)
    /\ \E k \in 1..Len(candidates_of(input_arr)) : candidates_of(input_arr)[k] \in prior

\* C7: no step removes a stem from UsedStems.
C7_UsedStemsOnlyGrows == [][used_stems \subseteq used_stems']_vars

\* C7 witness: UsedStems has grown over a seed and three committed turns.
C7_Witness ==
    /\ pc = "loop"
    /\ Cardinality(prior) = 3
    /\ Cardinality(used_stems) >= 5

\* a step that commits a turn
commits_turn == evaluating_turn /\ game' # game

\* a step that handles the quit command
quits == pc = "dispatch" /\ input = s_q

\* C8: Score starts at 0 and never decreases or wraps: it changes only in
\* a committed turn, by the sum of len - 3 >= 0 over the candidates, and at
\* quit, by the sum of len - 3 >= 0 over the words of current.
C8_ScoreNeverDecreases ==
    [][/\ pc \in {"setup", "setup_dispatch"} => score = 0
       /\ \A w \in current : Len(w) >= 3
       /\ score' >= score
       /\ commits_turn =>
             /\ \A k \in 1..Len(candidates_of(input_arr)) :
                   Len(candidates_of(input_arr)[k]) >= 3
             /\ score' = score + length_gain(candidates_of(input_arr))
       /\ quits => score' = score + length_gain(set_order(current))
       /\ (~commits_turn /\ ~quits) => score' = score]_vars

\* C8 witness: the game was quit with a Score made of a turn's gain and of
\* the bonus for a 4-letter word.
C8_Witness ==
    /\ pc = "done"
    /\ current = {w_does}
    /\ score = 2

\* C9: quitting adds len - 3 to Score once for every word of current,
\* whatever UsedStems holds, and ends the game: nothing changes afterwards.
C9_QuitBonusThenNothing ==
    [][/\ quits =>
             /\ score' = score + length_gain(set_order(current))
             /\ pc' = "done"
             /\ UNCHANGED <<current, prior, used_stems>>
       /\ pc = "done" => UNCHANGED vars]_vars

\* C9 witness: the game was quit with "alley" in current, whose stem is in
\* UsedStems: 3 points of turns and 2 points of bonus.
C9_Witness ==
    /\ pc = "done"
    /\ current = {w_alley}
    /\ stems_from_str(w_alley) \subseteq used_stems
    /\ score = 5

\* the words of valid_words.txt
valid_words == {VALID_WORDS[k] : k \in 1..Len(VALID_WORDS)}

\* C10: nothing is in the game before seeding; seeding, by a typed word of
\* exactly 3 letters that is a word or by a random word of the list, leaves
\* one word of length 3 in current, prior empty, Score 0 and UsedStems equal
\* to the stems of the seed; no turn typed next is credited for a candidate
\* with one of those stems.
C10_SeededState ==
    [][/\ pc \in {"setup", "setup_dispatch"} => game = <<{}, {}, {}, 0>>
       /\ (pc = "setup_dispatch" /\ pc' # "loop") => UNCHANGED game
       /\ (pc = "setup_dispatch" /\ pc' = "loop") =>
             \E w \in current' :
                /\ current' = {w}
                /\ Len(w) = 3
                /\ prior' = {}
                /\ score' = 0
                /\ used_stems' = stems_from_str(w)
                /\ \/ w = to_lower(input_arr) /\ alphabetic(w) /\ spell(w)
                   \/ to_lower(input_arr) \in {s_r, s_random} /\ w \in valid_words
                /\ \A line \in PlayLines :
                      play_turn(line, {w}, used_stems').verdict = "commit" =>
                          stems_of_all(candidates_of(line)) \cap stems_from_str(w) = {}]_vars

\* C10 witness: the game was seeded with "lay", typed in upper case or
\* drawn at random; both its stems are in UsedStems.
C10_Witness ==
    /\ pc = "loop"
    /\ current = {w_lay}
    /\ prior = {}
    /\ score = 0
    /\ used_stems = {w_lay, w_lie}

\* the candidates of a typed line as they were typed
typed_candidates_of(line) == Tail(strsep_tokens(line))

islower(c) == c \in 97..122

\* a candidate, as typed, is not made of lower-case letters only or is
\* shorter than 3
bad_candidate_as_typed(line) ==
    LET typed == typed_candidates_of(line)
    IN  \E k \in 1..Len(typed) :
           \/ \E n \in 1..Len(typed[k]) : ~islower(typed[k][n])
           \/ Len(typed[k]) < 3

\* C11: a turn is rejected whenever the first token is not a word of
\* current, or there is no candidate, or a candidate, once lower-cased, is
\* not alphabetic or is shorter than 3, or is_one_less_than returns false;
\* a turn is committed only if none of these holds and every candidate has
\* stems, none of them used or claimed by another candidate of the turn.
C11_TurnValidation ==
    [][evaluating_turn =>
          /\ (\/ not_current(input_arr, current)
              \/ no_candidates(input_arr)
              \/ bad_candidate(input_arr)
              \/ not_anagram(input_arr)) => (UNCHANGED game /\ pc' = "loop")
          /\ game' # game =>
                /\ ~not_current(input_arr, current)
                /\ ~no_candidates(input_arr)
                /\ ~bad_candidate(input_arr)
                /\ ~not_anagram(input_arr)
                /\ ~no_stems(input_arr)
                /\ ~stem_used(input_arr, used_stems)
                /\ ~stem_shared(input_arr)]_vars

\* C11 witness: a turn whose candidate was typed in upper case is about to
\* be committed.
C11_Witness ==
    /\ evaluating_turn
    /\ bad_candidate_as_typed(input_arr)
    /\ ~bad_candidate(input_arr)
    /\ play_turn(input_arr, current, used_stems).verdict = "commit"

\* C11 as stated, the candidates taken as typed: a turn with a candidate
\* that is not lower-case alphabetic of length 3 or more is rejected.
C11_AsTypedRejects ==
    [][(evaluating_turn /\ bad_candidate_as_typed(input_arr))
           => (UNCHANGED game /\ pc' = "loop")]_vars

\* the orders in which n candidates can be typed
orders ==
    [n \in 0..MaxCands |->
        {g \in [1..n -> 1..n] : \A a, b \in 1..n : a # b => g[a] # g[b]}]

\* the lists that hold the elements of the list seq in another order
permutations_of(seq) ==
    {[k \in 1..Len(seq) |-> seq[f[k]]] : f \in orders[Len(seq)]}

\* the typed line with its candidates in the order of the list perm
reordered(line, perm) == line_of(<<chosen_of(line)>> \o perm)

\* C16: the order of the candidates does not affect a turn: for every
\* order of the candidates typed, is_one_less_than returns the same value,
\* the turn would be committed exactly when the typed turn is, and it would
\* leave the Score, UsedStems, current and prior that the typed turn leaves.
C16_CandidateOrderIrrelevant ==
    [][evaluating_turn =>
          LET chosen == word(chosen_of(input_arr))
              typed == typed_candidates_of(input_arr)
              valid == is_one_less_than(chosen, candidates_of(input_arr))
          IN  \A perm \in permutations_of(typed) :
                 LET t == play_turn(reordered(input_arr, perm), current, used_stems)
                 IN  /\ is_one_less_than(chosen, [k \in 1..Len(perm) |-> to_lower(perm[k])])
                          = valid
                     /\ (t.verdict = "commit") <=> (game' # game)
                     /\ t.verdict = "commit" =>
                           /\ score' = commit_score(score, t)
                           /\ used_stems' = commit_used_stems(used_stems, t)
                           /\ current' = commit_current(current, t)
                           /\ prior' = commit_prior(prior, t)]_vars

\* C16 witness: a turn with two different candidates, typed in the order
\* opposite to that of the pool, is about to be committed.
C16_Witness ==
    /\ evaluating_turn
    /\ Len(candidates_of(input_arr)) = 2
    /\ str_less(candidates_of(input_arr)[2], candidates_of(input_arr)[1])
    /\ play_turn(input_arr, current, used_stems).verdict = "commit"

\* the game has been seeded and the program is in the play loop or has
\* left it at quit
seeded == pc \in {"loop", "dispatch", "done"}

\* every stem of every word of the two pools is in UsedStems
pool_stems_used(cur, pri, used) == \A w \in cur \cup pri : stems_from_str(w) \subseteq used

\* a candidate of the typed line is or was in a pool
pool_word_offered(line, cur, pri) ==
    LET cands == candidates_of(line)
    IN  \E k \in 1..Len(cands) : cands[k] \in cur \cup pri

\* C17: once the game is seeded every stem of every word of current and of
\* prior is in UsedStems, and a turn that offers as a candidate a word that
\* is or was in a pool is rejected.
C17_PoolStemsAreUsed ==
    seeded =>
       /\ pool_stems_used(current, prior, used_stems)
       /\ (evaluating_turn /\ pool_word_offered(input_arr, current, prior))
             => play_turn(input_arr, current, used_stems).verdict = "reject"

\* C17 witness: after two committed turns a turn passes the validator with
\* a single candidate that is a word of prior, all of whose stems are used.
C17_Witness ==
    /\ evaluating_turn
    /\ Cardinality(prior) >= 2
    /\ reaches_stems(input_arr, current)
    /\ Len(candidates_of(input_arr)) = 1
    /\ candidates_of(input_arr)[1] \in prior
    /\ stems_from_str(candidates_of(input_arr)[1]) # {}
    /\ stems_from_str(candidates_of(input_arr)[1]) \subseteq used_stems

\* the number of letters of the words of a pool
letters(cur) == length_gain(set_order(cur)) + 3 * Cardinality(cur)

\* C18: once the game is seeded current is not empty and its words have
\* 3 letters plus one letter for each committed turn: a committed turn adds
\* one word to prior and one letter to current, and no other step changes
\* the pools.
C18_CurrentLetters ==
    [][/\ seeded' =>
             /\ current' # {}
             /\ letters(current') = 3 + Cardinality(prior')
       /\ (seeded /\ commits_turn) =>
             /\ Cardinality(prior') = Cardinality(prior) + 1
             /\ letters(current') = letters(current) + 1
       /\ (seeded /\ ~commits_turn) => (current' = current /\ prior' = prior)]_vars

\* C18 witness: three turns were committed and current holds two words of
\* 3 letters.
C18_Witness ==
    /\ pc = "loop"
    /\ Cardinality(prior) = 3
    /\ Cardinality(current) = 2
    /\ letters(current) = 6

\* C19: whenever the screen is drawn, prior_index is an index of a page of
\* prior_strings, current_index is an index of a page of current_strings,
\* and current_strings is not empty.
C19_IndicesInsidePages ==
    pc = "loop" =>
        /\ 0 <= prior_index /\ prior_index < Len(prior_strings)
        /\ 0 <= current_index /\ current_index < Len(current_strings)
        /\ Len(current_strings) > 0

\* the words of a row, which ends every word with a space
RECURSIVE row_words(_, _)
row_words(row, w) ==
    IF row = <<>> THEN (IF w = <<>> THEN <<>> ELSE <<w>>)
    ELSE IF Head(row) = SPACE[1]
         THEN (IF w = <<>> THEN <<>> ELSE <<w>>) \o row_words(Tail(row), <<>>)
         ELSE row_words(Tail(row), Append(w, Head(row)))

\* the words of the rows of a page, row after row
RECURSIVE rows_words(_, _)
rows_words(page, r) ==
    IF r > Len(page) THEN <<>>
    ELSE row_words(page[r], <<>>) \o rows_words(page, r + 1)

\* the words of the pages, page after page
RECURSIVE pages_words(_, _)
pages_words(pages, n) ==
    IF n > Len(pages) THEN <<>>
    ELSE rows_words(pages[n], 1) \o pages_words(pages, n + 1)

\* C20: paginate loses no word: the rows of the pages of a pool hold every
\* word of the pool exactly once, in the order of the pool.
C20_PaginateKeepsEveryWord ==
    seeded =>
        /\ pages_words(current_strings, 1) = set_order(current)
        /\ pages_words(prior_strings, 1) = set_order(prior)

----------------------------------------------------------------------------
(* The validator on its own: a source word and a candidate list drawn from *)
(* a bounded alphabet, then one call of word(h_word).is_one_less_than.     *)

HLetters == 97..(96 + AlphaSize)
HStrings(n) == UNION {[1..k -> HLetters] : k \in 0..n}
HOthers ==
    {<<>>}
    \cup {<<s>> : s \in HStrings(MaxLen + 1)}
    \cup UNION {{<<SubSeq(s, 1, k), SubSeq(s, k + 1, Len(s))>> : k \in 0..Len(s)}
                : s \in HStrings(MaxLen + 1)}

\* the game's variables while the validator is exercised on its own
GameIdle ==
    /\ pc = "idle"
    /\ input_arr = <<>>
    /\ current = {}
    /\ prior = {}
    /\ used_stems = {}
    /\ score = 0
    /\ prior_index = 0
    /\ current_index = 0
    /\ prior_strings = <<>>
    /\ current_strings = <<>>
    /\ err = ""

\* the source word and the candidate lists of the documented examples
ExampleWords == {w_cat}
ExampleOthers == {<<w_cats>>, <<w_act>>, <<w_ct, w_as>>, <<w_as, w_ct>>}

InitValidator ==
    /\ GameIdle
    /\ h_word \in HStrings(MaxLen) \cup ExampleWords
    /\ h_other \in HOthers \cup ExampleOthers
    /\ h_ret = "unset"
    /\ h_stems = {}

CallIsOneLessThan ==
    /\ pc = "idle"
    /\ h_ret = "unset"
    /\ h_ret' = IF is_one_less_than(word(h_word), h_other) THEN "true" ELSE "false"
    /\ UNCHANGED <<pc, input_arr, game, screen, h_word, h_other, h_stems>>

NextValidator == CallIsOneLessThan

SpecValidator == InitValidator /\ [][NextValidator]_vars

\* number of occurrences of the character c in the string s
RECURSIVE count(_, _)
count(c, s) ==
    IF s = <<>> THEN 0
    ELSE (IF Head(s) = c THEN 1 ELSE 0) + count(c, Tail(s))

chars_of(s) == {s[k] : k \in 1..Len(s)}

\* the letters of o are the letters of w and exactly one more letter
MultisetPlusOne(w, o) ==
    /\ Len(o) = Len(w) + 1
    /\ \A c \in chars_of(w) \cup chars_of(o) : count(c, o) >= count(c, w)

\* C2: is_one_less_than returns true if and only if the letters of the
\* concatenated candidates are, as a multiset, the letters of the source
\* word plus exactly one more letter.
C2_ValidatorIffMultisetPlusOne ==
    h_ret # "unset" =>
        ((h_ret = "true") <=> MultisetPlusOne(h_word, join(h_other)))

\* the call under test has returned
returned == h_ret # "unset"

\* C12: for the source word "cat" and the candidates "ct", "as" the
\* validator returns true: the combined length is 4 and the letters are
\* those of "cat" and an "s".
C12_CatCtAsIsTrue ==
    (returned /\ h_word = w_cat /\ h_other = <<w_ct, w_as>>) => h_ret = "true"

\* C12 witness: the call for "cat" and "ct", "as" has returned.
C12_Witness ==
    /\ returned
    /\ h_word = w_cat
    /\ h_other = <<w_ct, w_as>>
    /\ Len(join(h_other)) = Len(h_word) + 1

\* C12 as stated: for "cat" and "ct", "as" the validator returns false.
C12_CatCtAsIsFalse ==
    (returned /\ h_word = w_cat /\ h_other = <<w_ct, w_as>>) => h_ret = "false"

\* C14: the validator never rejects the letters of the source word plus
\* one letter, in any arrangement and any split into candidates.
C14_TrueAnagramPlusOneAccepted ==
    (returned /\ MultisetPlusOne(h_word, join(h_other))) => h_ret = "true"

\* the letter that the candidates have and the source word has not
extra_letter(w, o) == CHOOSE c \in chars_of(o) : count(c, o) > count(c, w)

\* C14 witness: the call has returned for a source word with a repeated
\* letter and two candidates that are not in sorted order, the extra letter
\* being one the source word already has.
C14_Witness ==
    /\ returned
    /\ MultisetPlusOne(h_word, join(h_other))
    /\ Len(h_other) = 2
    /\ join(h_other) # sort(join(h_other))
    /\ Len(h_word) >= 2
    /\ extra_letter(h_word, join(h_other)) \in chars_of(h_word)

\* C15: the validator returns false whenever the combined length of the
\* candidates is not the length of the source word plus one.
C15_LengthFailFast ==
    (returned /\ Len(join(h_other)) # Len(h_word) + 1) => h_ret = "false"

\* C15 witness: the call has returned for candidates that are together
\* shorter than the source word and made of its letters; the difference of
\* the two sizes wraps.
C15_Witness ==
    /\ returned
    /\ h_other # <<>>
    /\ Len(join(h_other)) < Len(h_word)
    /\ size_sub(Len(join(h_other)), Len(h_word)) > Len(h_word)
    /\ chars_of(join(h_other)) \subseteq chars_of(h_word)

----------------------------------------------------------------------------
(* stems_from_str on its own: a string, and the list of stems that         *)
(* spell.stem returns for it, then one call.                               *)

\* the longest list that spell.stem returns
MaxStems == 3

StemWords ==
    {<<>>, w_all, w_ally, w_alley, w_lay, w_lie, w_ale, w_la, w_ode, w_does,
     w_laly, w_l8y, w_ALLY, w_LAY}
StemPool == {w_all, w_ally, w_lie}
StemLists == UNION {[1..n -> StemPool] : n \in 0..MaxStems}

InitStems ==
    /\ GameIdle
    /\ h_word \in StemWords
    /\ h_other \in StemLists
    /\ h_ret = "unset"
    /\ h_stems = {}

CallStemsFromStr ==
    /\ pc = "idle"
    /\ h_ret = "unset"
    /\ ~stems_throws(h_word)
    /\ h_stems' = stems_given(h_word, h_other)
    /\ h_ret' = "stems"
    /\ UNCHANGED <<pc, input_arr, game, screen, h_word, h_other>>

NextStems == CallStemsFromStr

SpecStems == InitStems /\ [][NextStems]_vars

\* the word is lower-case alphabetic and the dictionary has it
recognized(str) == alphabetic(str) /\ spell(str)

\* the base forms that morphological reduction yields for the word
base_forms(str) == {morphword(str, i) : i \in NOUN..ADV} \ {NULL}

\* reduction yields nothing in some category of which the word is a base form
flagged(str) == \E i \in NOUN..ADV : morphword(str, i) = NULL /\ in_wn(str, i)

\* C13: for a recognized word stems_from_str returns the base forms of the
\* four categories and, when the stemmer was flagged, every stem that the
\* stemmer returns; for any other string it returns the empty set.
C13_EveryStemAdded ==
    h_ret = "stems" =>
        IF recognized(h_word)
        THEN /\ base_forms(h_word) \subseteq h_stems
             /\ flagged(h_word) => \A k \in 1..Len(h_other) : h_other[k] \in h_stems
        ELSE h_stems = {}

====
